---- MODULE Spec2Model ----
(***************************************************************************)
(* State-machine model of src/scraper.ts: the command line, the cluster    *)
(* run (pre-flight job, category jobs, idle, close) and, per category job, *)
(* the task callback with the scrape generator it consumes.                *)
(*                                                                         *)
(* A step of a job is one await of the source: everything the source does  *)
(* synchronously after the awaited call returns (the item loop's limit     *)
(* check, the yield, the consumer's push and increment, the loop advance)  *)
(* belongs to the same action.                                             *)
(***************************************************************************)
EXTENDS Integers, Sequences, FiniteSets, TLC

VARIABLES
    argv,       \* process.argv.slice(2)
    site,       \* per category: number of product rows on each catalog page
    dom,        \* the product rows the site serves when a row is read
    mainPc,     \* position of scrapeInParallel
    exitCode,   \* exit status of the process, "none" while it runs
    queue,      \* the cluster's job queue (job ids, 0 is the pre-flight job)
    worker,     \* worker slot -> job it is handling, or NoJob
    cstate,     \* the cluster's view of each job
    enqueued,   \* how many times each job was handed to cluster.queue
    pre,        \* the pre-flight task callback
    job,        \* the category task callback of each job
    files       \* data-staging/json: file name -> content

vars == <<argv, site, dom, mainPc, exitCode, queue, worker, cstate, enqueued,
          pre, job, files>>

----------------------------------------------------------------------------
(* Bounds of the model *)

MaxPages == 2
MaxItems == 2
MaxArgs == 3
MaxSpecs == 2

(* Program constants *)

maxConcurrency == 5
Infinity == 999
NaN == -1

\* The catalog categories the model knows: ALL_ENDPOINTS cut to its first
\* and fourth entry.
ALL_ENDPOINTS == <<"cpu", "memory">>

Categories == {ALL_ENDPOINTS[i] : i \in 1..Len(ALL_ENDPOINTS)}

NoJob == -1
PreFlight == 0

----------------------------------------------------------------------------
(* The command line *)

\* parseInt on the tokens the model passes
parseInt(s) ==
    CASE s = "0" -> 0
      [] s = "1" -> 1
      [] s = "2" -> 2
      [] s = "3" -> 3
      [] OTHER -> NaN

\* Array.prototype.indexOf: first position (1-based), 0 when absent
indexOf(seq, tok) ==
    IF \E i \in 1..Len(seq) : seq[i] = tok
    THEN CHOOSE i \in 1..Len(seq) :
            seq[i] = tok /\ \A k \in 1..(i - 1) : seq[k] # tok
    ELSE 0

inputEndpoints == argv

endpointsToScrape ==
    IF Len(inputEndpoints) # 0 THEN inputEndpoints ELSE ALL_ENDPOINTS

limitIndex == indexOf(inputEndpoints, "-n")

limit ==
    IF limitIndex # 0 /\ limitIndex + 1 <= Len(inputEndpoints)
    THEN IF parseInt(inputEndpoints[limitIndex + 1]) # NaN
         THEN parseInt(inputEndpoints[limitIndex + 1])
         ELSE Infinity
    ELSE Infinity

NumJobs == Len(endpointsToScrape)
JobIds == 1..NumJobs
endpoint(j) == endpointsToScrape[j]

----------------------------------------------------------------------------
(* The catalog site *)

\* a category has a pagination control; any other endpoint has none
hasPagination(e) == e \in Categories

sitePages(e) == Len(site[e])

\* the record scraped from row i of page p: the fields of 'serialized',
\* with the place and the row they were read from
Part(p, i, row, fields) == [page |-> p, idx |-> i, row |-> row, fields |-> fields]

----------------------------------------------------------------------------
(* Rows and their serialization (lines 157-213) *)

\* what a read of the DOM gives besides a text: a rejected read, and the
\* null of a node without text
Throws == "<throws>"
Missing == "<null>"

\* the values of a Part
Null == [kind |-> "null", num |-> 0, str |-> ""]
Num(n) == [kind |-> "number", num |-> n, str |-> ""]
Str(t) == [kind |-> "string", num |-> 0, str |-> t]

\* String.prototype.trim and replaceAll('\n', ' ') on the texts of the rows
trim(t) == CASE t = " " -> "" [] t = " Core Count" -> "Core Count" [] OTHER -> t
replaceNewlines(t) == IF t = "Ryzen\n5" THEN "Ryzen 5" ELSE t

\* serialization-map.json: raw label -> (field name, serialization kind)
map ==
    [cpu |-> ("Core Count" :> <<"core_count", "number">>)
             @@ ("Boost Clock" :> <<"boost_clock", "custom">>)
             @@ ("Graphics" :> <<"graphics", "custom">>),
     memory |-> ("Modules" :> <<"modules", "custom">>)]

\* the registry of custom serializers: category -> field names with a parser
customSerializers == [cpu |-> {"boost_clock"}, memory |-> {"modules"}]

\* the members every object of the map inherits from Object.prototype
ObjectPrototype == {"constructor", "toString", "__proto__"}

\* the numeric parser: the number in the text, null when there is none
serializeNumber(t) ==
    CASE t = "$129" -> Num(129)
      [] t = "8" -> Num(8)
      [] OTHER -> Null

genericSerialize(t, kind) ==
    IF kind = "number" THEN serializeNumber(t) ELSE Str(trim(t))

\* a registered custom parser applied to a text it can read
customSerializer(t) == Str(t)

\* the texts a registered custom parser throws on
CustomThrows(t) == t = "x"

\* map[endpoint][specName] with typeof mapped === 'undefined' and the
\* destructuring of line 186: a table entry, nothing, or an inherited member
\* that is not iterable
Lookup(e, specName) ==
    IF specName \in DOMAIN map[e] THEN [found |-> "entry", entry |-> map[e][specName]]
    ELSE IF specName \in ObjectPrototype THEN [found |-> "inherited", entry |-> <<>>]
    ELSE [found |-> "undefined", entry |-> <<>>]

Fail(fields) == [ok |-> FALSE, fields |-> fields]
Done(fields) == [ok |-> TRUE, fields |-> fields]

\* a spec loop that throws when the registry has no parser for the field
SerializeSpecStrict(e, fields, cell) ==
    IF cell.label = Throws THEN Fail(fields)
    ELSE LET mapped == Lookup(e, trim(cell.label))
         IN IF mapped.found = "undefined" THEN Done(fields)
            ELSE IF mapped.found = "inherited" THEN Fail(fields)
            ELSE LET snakeSpecName == mapped.entry[1]
                     kind == mapped.entry[2]
                 IN IF cell.value = Throws THEN Fail(fields)
                    ELSE IF cell.value = Missing \/ trim(cell.value) = ""
                    THEN Done((snakeSpecName :> Null) @@ fields)
                    ELSE IF kind = "custom"
                    THEN IF snakeSpecName \in customSerializers[e]
                         THEN IF CustomThrows(cell.value) THEN Fail(fields)
                              ELSE Done((snakeSpecName :> customSerializer(cell.value))
                                        @@ fields)
                         ELSE Fail(fields)
                    ELSE Done((snakeSpecName :> genericSerialize(cell.value, kind))
                              @@ fields)

\* one iteration of the spec loop (lines 175-208) on the record so far
SerializeSpec(e, fields, cell) ==
    IF cell.label = Throws THEN Fail(fields)
    ELSE LET mapped == Lookup(e, trim(cell.label))
         IN IF mapped.found = "undefined" THEN Done(fields)
            ELSE IF mapped.found = "inherited" THEN Fail(fields)
            ELSE LET snakeSpecName == mapped.entry[1]
                     kind == mapped.entry[2]
                 IN IF cell.value = Throws THEN Fail(fields)
                    ELSE IF cell.value = Missing \/ trim(cell.value) = ""
                    THEN Done((snakeSpecName :> Null) @@ fields)
                    ELSE IF kind = "custom"
                    THEN IF snakeSpecName \in customSerializers[e]
                         THEN IF CustomThrows(cell.value) THEN Fail(fields)
                              ELSE Done((snakeSpecName :> customSerializer(cell.value))
                                        @@ fields)
                         ELSE Done((snakeSpecName :> Null) @@ fields)
                    ELSE Done((snakeSpecName :> genericSerialize(cell.value, kind))
                              @@ fields)

\* the first n iterations of the spec loop
RECURSIVE SpecsUpTo(_, _, _, _)
SpecsUpTo(e, fields, specs, n) ==
    IF n = 0 THEN Done(fields)
    ELSE LET before == SpecsUpTo(e, fields, specs, n - 1)
         IN IF before.ok THEN SerializeSpec(e, before.fields, specs[n]) ELSE before

\* name and price of a row that drops the price field of an empty text
SerializeHeadNoPrice(row) ==
    IF row.name = Throws THEN Fail(<<>>)
    ELSE LET named == ("name" :> Str(replaceNewlines(row.name)))
         IN IF row.price = Throws THEN Fail(named)
            ELSE IF row.price \in {"", Missing} THEN Done(named)
            ELSE Done(("price" :> serializeNumber(row.price)) @@ named)

\* name and price of a row (lines 161-171)
SerializeHead(row) ==
    IF row.name = Throws THEN Fail(<<>>)
    ELSE LET named == ("name" :> Str(replaceNewlines(row.name)))
         IN IF row.price = Throws THEN Fail(named)
            ELSE Done(("price" :> IF row.price \in {"", Missing} THEN Null
                                  ELSE serializeNumber(row.price)) @@ named)

\* the try block of one product row: whether it reached the push, and
\* 'serialized' at that point or at the throw
Serialize(e, row) ==
    LET head == SerializeHead(row)
    IN IF head.ok THEN SpecsUpTo(e, head.fields, row.specs, Len(row.specs))
       ELSE head

\* a row that serializes, and one row for each way a row can fail, in
\* either category
Cell(l, v) == [label |-> l, value |-> v]
Row(n, p, specs) == [name |-> n, price |-> p, specs |-> specs]
GoodRow == Row("Ryzen 5", "$129", <<Cell("Core Count", "8")>>)
FailureSamples ==
    { Row(Throws, "$129", <<>>), Row("Ryzen 5", Throws, <<>>),
      Row("Ryzen 5", "$129", <<Cell(Throws, "8")>>),
      Row("Ryzen 5", "$129", <<Cell("Core Count", Throws), Cell("Modules", Throws)>>),
      Row("Ryzen 5", "$129", <<Cell("Boost Clock", "x"), Cell("Modules", "x")>>) }
SampleRows == {GoodRow} \cup FailureSamples

\* the rows of the runs that look into the rows: every name and price
\* without attribute cells, every sequence of up to n cells, and a cell
\* whose label has a blank in front
Names == {"Ryzen 5", "Ryzen\n5", Throws}
Prices == {"$129", "", "free", Missing, Throws}
Labels == {"Core Count", "Boost Clock", "Graphics", "Mystery Spec", "constructor", Throws}
Values == {"8", "x", " ", Missing, Throws}
Cells == {Cell(l, v) : l \in Labels, v \in Values}
ItemRows(n) ==
    {Row(name, p, <<>>) : name \in Names, p \in Prices}
    \cup UNION {{Row("Ryzen 5", "$129", s) : s \in [1..k -> Cells]} : k \in 1..n}
    \cup {Row("Ryzen 5", "$129", <<Cell(" Core Count", v)>>) : v \in Values}

----------------------------------------------------------------------------
(* Initial states *)

\* a task callback that has not been started
NewJob ==
    [pc |-> "idle", pageClosed |-> FALSE, barTotal |-> 0, numPages |-> 0,
     currentPage |-> 0, productEls |-> 0, item |-> 0,
     pageProducts |-> <<>>, allParts |-> <<>>, fileName |-> "",
     caught |-> FALSE, outcome |-> "none", deadlineParts |-> <<>>,
     batches |-> <<>>, dropped |-> <<>>, progress |-> <<>>, writes |-> <<>>]

NewPre == [pc |-> "idle", pageClosed |-> FALSE, reachable |-> "unknown"]

\* invocations with several jobs
ArgvMany ==
    { a \in { <<>>, <<"cpu">>, <<"memory", "cpu">>, <<"cpu", "cpu">>,
              <<"-n", "1">>, <<"cpu", "-n", "1">>, <<"cpu", "-n">>,
              <<"-n", "x">>, <<"-n", "x", "-n", "1">> } : Len(a) <= MaxArgs }

\* invocations with one category, with and without an item cap
ArgvOne ==
    { a \in { <<"cpu">>, <<"cpu", "-n", "0">>, <<"cpu", "-n", "1">>,
              <<"-n", "2", "cpu">>, <<"cpu", "-n", "3">>,
              <<"cpu", "-n", "2", "-n">> } : Len(a) <= MaxArgs }

\* an invocation with more jobs than the cluster has workers; none of its
\* endpoints is a category of the site
ArgvPool == { <<"a", "b", "c", "d", "e", "f">> }

\* one invocation for the runs that look into the rows
ArgvItem == { <<"cpu">> }

\* sites with one product row on every page
SmallSites == {[p \in 1..n |-> 1] : n \in 1..MaxPages}

\* one site for the runs that never read it
PoolSites == { <<1>> }

\* two pages of one product row
ItemSites == { <<1, 1>> }

\* sites with up to MaxPages pages of up to MaxItems product rows
AllSites == UNION {[1..n -> 0..MaxItems] : n \in 1..MaxPages}

InitRun(args, sites, doms) ==
    /\ argv \in args
    /\ \E s \in sites : site = [c \in Categories |-> s]
    /\ dom \in doms
    /\ mainPc = "start"
    /\ exitCode = "none"
    /\ queue = <<>>
    /\ worker = [w \in 1..maxConcurrency |-> NoJob]
    /\ cstate = [j \in 0..NumJobs |-> "new"]
    /\ enqueued = [j \in 0..NumJobs |-> 0]
    /\ pre = NewPre
    /\ job = [j \in JobIds |-> NewJob]
    /\ files = <<>>

Init == InitRun(ArgvMany, SmallSites, {SampleRows})

InitOne == InitRun(ArgvOne, AllSites, {SampleRows})

InitPool == InitRun(ArgvPool, PoolSites, {SampleRows})

\* one category whose two pages serve one and the same product row
InitItem == InitRun(ArgvItem, ItemSites, {{row} : row \in ItemRows(MaxSpecs)})

----------------------------------------------------------------------------
(* The cluster (puppeteer-cluster, configured by Cluster.launch) *)

Busy == {w \in DOMAIN worker : worker[w] # NoJob}
\* a dispatcher that takes any worker for free
FreeAny == DOMAIN worker

Free == DOMAIN worker \ Busy

\* a cluster that recycles every worker when one job ends
FreeWorkerAll(j) == [w \in DOMAIN worker |-> NoJob]

FreeWorker(j) == [w \in DOMAIN worker |-> IF worker[w] = j THEN NoJob ELSE worker[w]]

\* a cluster that starts a job again when its callback threw (retryLimit)
SettleRetries(j, st) ==
    IF cstate[j] = "running"
    THEN /\ cstate' = [cstate EXCEPT ![j] = IF st = "error" THEN "queued" ELSE st]
         /\ worker' = [w \in DOMAIN worker |->
                          IF worker[w] = j THEN NoJob ELSE worker[w]]
    ELSE UNCHANGED <<cstate, worker>>

\* the task callback of job j returned (st = "success") or threw
\* (st = "error"): the cluster records it and releases the worker, unless
\* the job's deadline already settled it
Settle(j, st) ==
    IF cstate[j] = "running"
    THEN /\ cstate' = [cstate EXCEPT ![j] = st]
         /\ worker' = FreeWorker(j)
    ELSE UNCHANGED <<cstate, worker>>

\* cluster.queue: append to the job queue
Enqueue(js) ==
    /\ queue' = queue \o js
    /\ enqueued' = [j \in DOMAIN enqueued |->
                      enqueued[j] + Cardinality({i \in 1..Len(js) : js[i] = j})]

\* the dispatcher hands the head of the queue to a free worker, which opens
\* a page and calls the job's task callback
Dispatch ==
    /\ queue # <<>>
    /\ Free # {}
    /\ LET j == Head(queue)
           w == CHOOSE v \in Free : \A u \in Free : v <= u
       IN /\ queue' = Tail(queue)
          /\ worker' = [worker EXCEPT ![w] = j]
          /\ cstate' = [cstate EXCEPT ![j] = "running"]
          /\ IF j = PreFlight
             THEN /\ pre' = [pre EXCEPT !.pc = "goto"]
                  /\ UNCHANGED job
             ELSE /\ job' = [job EXCEPT ![j].pc = "viewport"]
                  /\ UNCHANGED pre
    /\ UNCHANGED <<argv, site, dom, mainPc, exitCode, enqueued, files>>

\* the job's deadline (timeout: 20 minutes) passes while its task callback
\* is still running: the cluster settles the job as failed, closes its page
\* and releases the worker.  The callback itself is not interrupted: it goes
\* on, and every call it makes on the closed page rejects.
Timeout(j) ==
    /\ cstate[j] = "running"
    /\ cstate' = [cstate EXCEPT ![j] = "timeout"]
    /\ worker' = FreeWorker(j)
    /\ IF j = PreFlight
       THEN /\ pre' = [pre EXCEPT !.pageClosed = TRUE]
            /\ UNCHANGED job
       ELSE /\ job' = [job EXCEPT ![j].pageClosed = TRUE,
                                    ![j].deadlineParts = job[j].allParts]
            /\ UNCHANGED pre
    /\ UNCHANGED <<argv, site, dom, mainPc, exitCode, queue, enqueued, files>>

----------------------------------------------------------------------------
(* scrapeInParallel *)

\* mkdir, Cluster.launch, cluster.task and cluster.queue of the pre-flight
\* job all succeed
Launch ==
    /\ mainPc = "start"
    /\ mainPc' = "idle"
    /\ Enqueue(<<PreFlight>>)
    /\ cstate' = [cstate EXCEPT ![PreFlight] = "queued"]
    /\ UNCHANGED <<argv, site, dom, exitCode, worker, pre, job, files>>

\* an idle() that looks at the queue only
IsIdleQueueOnly == queue = <<>>

\* what cluster.idle() waits for
IsIdle == queue = <<>> /\ Busy = {}

\* await cluster.idle() returns
IdleReturns ==
    /\ mainPc = "idle"
    /\ IsIdle
    /\ mainPc' = "close"
    /\ UNCHANGED <<argv, site, dom, exitCode, queue, worker, cstate, enqueued, pre, job, files>>

\* await cluster.close()
Close ==
    /\ mainPc = "close"
    /\ mainPc' = "closed"
    /\ UNCHANGED <<argv, site, dom, exitCode, queue, worker, cstate, enqueued, pre, job, files>>

\* every callback has ended
AllEnded ==
    /\ pre.pc \in {"idle", "done"}
    /\ \A j \in JobIds : job[j].pc \in {"idle", "done"}

\* an exit status that reports a failed pre-flight check
exitStatusFromPreFlight == IF pre.reachable = "no" THEN 1 ELSE 0

\* the status the process ends with after scrapeInParallel resolved: the
\* program never sets process.exitCode and never calls process.exit
exitStatus == 0

\* nothing is left to run: the process ends; no statement of the program
\* sets an exit status
Exit ==
    /\ mainPc = "closed"
    /\ AllEnded
    /\ mainPc' = "exited"
    /\ exitCode' = exitStatus
    /\ UNCHANGED <<argv, site, dom, queue, worker, cstate, enqueued, pre, job, files>>

----------------------------------------------------------------------------
(* The pre-flight job *)

\* page.goto of the site root resolves
PreGoto ==
    /\ pre.pc = "goto"
    /\ ~pre.pageClosed
    /\ pre' = [pre EXCEPT !.pc = "wait"]
    /\ UNCHANGED <<argv, site, dom, mainPc, exitCode, queue, worker, cstate, enqueued, job, files>>

\* page.goto throws, outside the try block: the callback throws
PreGotoThrows ==
    /\ pre.pc = "goto"
    /\ pre' = [pre EXCEPT !.pc = "done", !.reachable = "no"]
    /\ Settle(PreFlight, "error")
    /\ UNCHANGED <<argv, site, dom, mainPc, exitCode, queue, enqueued, job, files>>

\* a pre-flight callback whose catch block lacks the return
preQueuesNoReturn(found) == [i \in 1..NumJobs |-> i]

\* the jobs the pre-flight callback queues: every endpoint when the 'nav'
\* element was found, none when the wait for it failed
preQueues(found) == IF found THEN [i \in 1..NumJobs |-> i] ELSE <<>>

\* waitForSelector('nav') resolves (found) and every endpoint is queued, or
\* it rejects, the failure is reported and the callback returns
PreWait(found) ==
    /\ pre.pc = "wait"
    /\ found => ~pre.pageClosed
    /\ pre' = [pre EXCEPT !.pc = "done",
                          !.reachable = IF found THEN "yes" ELSE "no"]
    /\ LET js == preQueues(found)
           queued == {js[i] : i \in 1..Len(js)}
           settled == cstate[PreFlight] = "running"
       IN /\ Enqueue(js)
          /\ cstate' = [j \in DOMAIN cstate |->
                          IF j \in queued THEN "queued"
                          ELSE IF j = PreFlight /\ settled THEN "success"
                          ELSE cstate[j]]
          /\ worker' = IF settled THEN FreeWorker(PreFlight) ELSE worker
    /\ UNCHANGED <<argv, site, dom, mainPc, exitCode, job, files>>

PreReachable == PreWait(TRUE)

PreUnreachable == PreWait(FALSE)

----------------------------------------------------------------------------
(* The category task callback and the scrape generator, as functions on    *)
(* the callback's local state r                                            *)

\* a catch block that always goes on to writeFile under the plain name
CatchAlwaysWrites(r) == [r EXCEPT !.caught = TRUE, !.pc = "write"]

\* the catch block of the task callback
Catch(r) ==
    IF Len(r.allParts) # 0
    THEN [r EXCEPT !.caught = TRUE, !.fileName = @ \o ".incomplete", !.pc = "write"]
    ELSE [r EXCEPT !.caught = TRUE, !.pc = "done", !.outcome = "nothing"]

\* the generator is exhausted: progressBar.stop(), then on to writeFile
Finish(r) ==
    [r EXCEPT !.progress = Append(@, "stop"), !.pc = "write"]

\* a page loop that stops one page early (< for <=)
EnterPageOffByOne(r) ==
    IF r.currentPage < r.numPages
    THEN [r EXCEPT !.pageProducts = <<>>, !.productEls = 0, !.item = 0,
                   !.pc = IF r.currentPage > 1 THEN "nav" ELSE "query"]
    ELSE [r EXCEPT !.progress = Append(@, "stop"), !.pc = "write"]

\* the head of the page loop: its condition and the navigation it needs
EnterPage(r) ==
    IF r.currentPage <= r.numPages
    THEN [r EXCEPT !.pageProducts = <<>>, !.productEls = 0, !.item = 0,
                   !.pc = IF r.currentPage > 1 THEN "nav" ELSE "query"]
    ELSE Finish(r)

\* a limit check that lets one record too many through (> for >=)
ReachedLimitStrict(parts) == Len(parts) > limit

\* the limit check of the source, on a page batch
ReachedLimit(parts) == Len(parts) >= limit

\* a consumer that puts each batch in front of the accumulated records
YieldPrepends(r) ==
    LET r1 == [r EXCEPT !.allParts = r.pageProducts \o @,
                        !.batches = Append(@, [page |-> r.currentPage,
                                               parts |-> r.pageProducts,
                                               seen |-> r.item]),
                        !.progress = Append(@, "increment")]
    IN IF Len(r.pageProducts) >= limit
       THEN [r1 EXCEPT !.progress = Append(@, "stop"), !.pc = "write"]
       ELSE IF r1.currentPage + 1 <= r1.numPages
            THEN [r1 EXCEPT !.currentPage = @ + 1, !.pageProducts = <<>>,
                            !.productEls = 0, !.item = 0, !.pc = "nav"]
            ELSE [r1 EXCEPT !.currentPage = @ + 1,
                            !.progress = Append(@, "stop"), !.pc = "write"]

\* yield pageProducts: the consumer appends the batch and increments the
\* bar, then the generator breaks on the limit or moves to the next page
Yield(r) ==
    LET r1 == [r EXCEPT !.allParts = @ \o r.pageProducts,
                        !.batches = Append(@, [page |-> r.currentPage,
                                               parts |-> r.pageProducts,
                                               seen |-> r.item]),
                        !.progress = Append(@, "increment")]
    IN IF ReachedLimit(r.pageProducts)
       THEN Finish(r1)
       ELSE EnterPage([r1 EXCEPT !.currentPage = @ + 1])

\* an item loop without the limit check
AfterItemNoBreak(r) ==
    IF r.item < r.productEls THEN [r EXCEPT !.item = @ + 1] ELSE Yield(r)

\* the end of one iteration of the item loop
AfterItem(r) ==
    IF ReachedLimit(r.pageProducts) THEN Yield(r)
    ELSE IF r.item < r.productEls THEN [r EXCEPT !.item = @ + 1]
    ELSE Yield(r)

\* the name and content handed to writeFile
Artifact(r) == [name |-> r.fileName \o ".json", content |-> r.allParts]

----------------------------------------------------------------------------
(* The steps of a category job *)

\* job j's callback moves to r; when it ended, the cluster settles the job
TaskStep(j, r) ==
    /\ job' = [job EXCEPT ![j] = r]
    /\ IF r.pc = "done"
       THEN Settle(j, IF r.outcome = "threw" THEN "error" ELSE "success")
       ELSE UNCHANGED <<cstate, worker>>
    /\ UNCHANGED <<argv, site, dom, mainPc, exitCode, queue, enqueued, pre>>

\* page.setViewport resolves; fileName and allParts are set up
ViewportOk(j) ==
    /\ job[j].pc = "viewport"
    /\ ~job[j].pageClosed
    /\ TaskStep(j, [job[j] EXCEPT !.fileName = endpoint(j), !.allParts = <<>>,
                                  !.pc = "count1"])
    /\ UNCHANGED files

\* page.setViewport rejects, outside the try block
ViewportThrows(j) ==
    /\ job[j].pc = "viewport"
    /\ TaskStep(j, [job[j] EXCEPT !.pc = "done", !.outcome = "threw"])
    /\ UNCHANGED files

\* a callback that starts the bar before it knows the page count
BarCountFailsStarted(j) ==
    /\ job[j].pc = "count1"
    /\ TaskStep(j, Catch([job[j] EXCEPT !.progress = Append(@, "start")]))
    /\ UNCHANGED files

\* getNumPages of the callback resolves: progressBar.start(numPages, 0)
BarCountOk(j) ==
    /\ job[j].pc = "count1"
    /\ ~job[j].pageClosed
    /\ hasPagination(endpoint(j))
    /\ TaskStep(j, [job[j] EXCEPT !.barTotal = sitePages(endpoint(j)),
                                  !.progress = Append(@, "start"),
                                  !.pc = "count2"])
    /\ UNCHANGED files

BarCountFails(j) ==
    /\ job[j].pc = "count1"
    /\ TaskStep(j, Catch(job[j]))
    /\ UNCHANGED files

\* the generator starts: setRequestInterception and getNumPages resolve
ScrapeCountOk(j) ==
    /\ job[j].pc = "count2"
    /\ ~job[j].pageClosed
    /\ hasPagination(endpoint(j))
    /\ TaskStep(j, EnterPage([job[j] EXCEPT !.numPages = sitePages(endpoint(j)),
                                            !.currentPage = 1]))
    /\ UNCHANGED files

ScrapeCountFails(j) ==
    /\ job[j].pc = "count2"
    /\ TaskStep(j, Catch(job[j]))
    /\ UNCHANGED files

\* page.goto of page currentPage > 1 and waitForNetworkIdle resolve
NavOk(j) ==
    /\ job[j].pc = "nav"
    /\ ~job[j].pageClosed
    /\ TaskStep(j, [job[j] EXCEPT !.pc = "query"])
    /\ UNCHANGED files

NavFails(j) ==
    /\ job[j].pc = "nav"
    /\ TaskStep(j, Catch(job[j]))
    /\ UNCHANGED files

\* page.$$('.tr__product') resolves with the rows of the page
QueryOk(j) ==
    /\ job[j].pc = "query"
    /\ ~job[j].pageClosed
    /\ LET n == site[endpoint(j)][job[j].currentPage]
       IN TaskStep(j, IF n = 0
                      THEN Yield([job[j] EXCEPT !.productEls = 0])
                      ELSE [job[j] EXCEPT !.productEls = n, !.item = 1, !.pc = "item"])
    /\ UNCHANGED files

QueryFails(j) ==
    /\ job[j].pc = "query"
    /\ TaskStep(j, Catch(job[j]))
    /\ UNCHANGED files

\* one row is read and serialized: its record is pushed
ItemOk(j) ==
    /\ job[j].pc = "item"
    /\ ~job[j].pageClosed
    /\ \E row \in dom :
          LET s == Serialize(endpoint(j), row)
          IN /\ s.ok
             /\ TaskStep(j, AfterItem([job[j] EXCEPT
                    !.pageProducts = Append(@, Part(job[j].currentPage, job[j].item,
                                                    row, s.fields))]))
    /\ UNCHANGED files

\* an item loop whose catch block rethrows
ItemFailsAborts(j) ==
    /\ job[j].pc = "item"
    /\ IF job[j].pageClosed THEN TRUE
       ELSE \E row \in dom : ~Serialize(endpoint(j), row).ok
    /\ TaskStep(j, Catch([job[j] EXCEPT
           !.dropped = Append(@, [page |-> job[j].currentPage, idx |-> job[j].item])]))
    /\ UNCHANGED files

\* reading or serializing the row throws (every read of a closed page
\* does): caught by the item's try block, nothing is pushed
ItemFails(j) ==
    /\ job[j].pc = "item"
    /\ IF job[j].pageClosed THEN TRUE
       ELSE \E row \in dom : ~Serialize(endpoint(j), row).ok
    /\ TaskStep(j, AfterItem([job[j] EXCEPT
           !.dropped = Append(@, [page |-> job[j].currentPage, idx |-> job[j].item])]))
    /\ UNCHANGED files

\* writeFile resolves
WriteOk(j) ==
    /\ job[j].pc = "write"
    /\ LET a == Artifact(job[j])
       IN /\ files' = (a.name :> a.content) @@ files
          /\ TaskStep(j, [job[j] EXCEPT !.writes = Append(@, a), !.pc = "done",
                            !.outcome = IF job[j].caught THEN "incomplete" ELSE "completed"])

\* writeFile rejects, outside the try block
WriteThrows(j) ==
    /\ job[j].pc = "write"
    /\ TaskStep(j, [job[j] EXCEPT !.writes = Append(@, Artifact(job[j])),
                                  !.pc = "done", !.outcome = "threw"])
    /\ UNCHANGED files

----------------------------------------------------------------------------
(* Specifications *)

JobStep(j) ==
    \/ ViewportOk(j) \/ ViewportThrows(j)
    \/ BarCountOk(j) \/ BarCountFails(j)
    \/ ScrapeCountOk(j) \/ ScrapeCountFails(j)
    \/ NavOk(j) \/ NavFails(j)
    \/ QueryOk(j) \/ QueryFails(j)
    \/ ItemOk(j) \/ ItemFails(j)
    \/ WriteOk(j) \/ WriteThrows(j)

Next ==
    \/ Launch \/ IdleReturns \/ Close \/ Exit
    \/ Dispatch
    \/ \E j \in 0..NumJobs : Timeout(j)
    \/ PreGoto \/ PreGotoThrows \/ PreReachable \/ PreUnreachable
    \/ \E j \in JobIds : JobStep(j)

Spec == Init /\ [][Next]_vars

SpecOne == InitOne /\ [][Next]_vars

SpecItem == InitItem /\ [][Next]_vars

\* The steps of a job whose endpoint has no pagination control: its first
\* getNumPages fails, so no later step of the callback is ever enabled.
PoolJobStep(j) ==
    \/ ViewportOk(j) \/ ViewportThrows(j)
    \/ BarCountFails(j)

\* Next for runs in which no endpoint is a category
NextPool ==
    \/ Launch \/ IdleReturns \/ Close \/ Exit
    \/ Dispatch
    \/ \E j \in 0..NumJobs : Timeout(j)
    \/ PreGoto \/ PreGotoThrows \/ PreReachable \/ PreUnreachable
    \/ \E j \in JobIds : PoolJobStep(j)

SpecPool == InitPool /\ [][NextPool]_vars

\* Every await of the program settles (each navigation and wait has its own
\* timeout, each job its deadline) and the event loop runs whatever is
\* ready: a run does not stop while a step is possible.
FairSpec == Spec /\ WF_vars(Next)

----------------------------------------------------------------------------
(* Properties *)

RECURSIVE Flatten(_)
\* the concatenation of the yielded batches, in the order of the yields
Flatten(bs) == IF bs = <<>> THEN <<>> ELSE Head(bs).parts \o Flatten(Tail(bs))

\* the pages of the yielded batches, in the order of the yields
BatchPages(r) == [i \in 1..Len(r.batches) |-> r.batches[i].page]

\* the callback of job j ended through its catch block
Aborted(j) == job[j].pc = "done" /\ job[j].caught

\* the generator of job j was exhausted and the callback ended
Exhausted(j) ==
    /\ job[j].pc = "done"
    /\ job[j].progress # <<>>
    /\ job[j].progress[Len(job[j].progress)] = "stop"

IncompleteName(j) == endpoint(j) \o ".incomplete.json"
CompleteName(j) == endpoint(j) \o ".json"

\* C1: a job that ended through the catch block with N accumulated records
\* has, when N > 0, handed exactly one artifact to writeFile, named
\* <category>.incomplete.json and holding the N records of the yielded
\* batches in their order, and no file <category>.json exists; when N = 0 it
\* has written nothing and no file of the category exists.
PartialFailureLaw ==
    \A j \in JobIds :
        Aborted(j) =>
            IF Len(job[j].allParts) > 0
            THEN /\ job[j].writes = <<[name |-> IncompleteName(j),
                                      content |-> Flatten(job[j].batches)]>>
                 /\ job[j].allParts = Flatten(job[j].batches)
                 /\ CompleteName(j) \notin DOMAIN files
                 /\ job[j].outcome = "incomplete" =>
                        /\ IncompleteName(j) \in DOMAIN files
                        /\ files[IncompleteName(j)] = job[j].allParts
            ELSE /\ job[j].writes = <<>>
                 /\ CompleteName(j) \notin DOMAIN files
                 /\ IncompleteName(j) \notin DOMAIN files

\* a job aborted by a navigation error after two records, before its
\* deadline, and its incomplete artifact is on disk
PartialFailureWitness ==
    \E j \in JobIds :
        /\ Aborted(j)
        /\ ~job[j].pageClosed
        /\ Len(job[j].allParts) = 2
        /\ job[j].outcome = "incomplete"
        /\ IncompleteName(j) \in DOMAIN files

\* C2: with -n k, no artifact handed to writeFile holds more than k records.
CapLaw ==
    \A j \in JobIds :
        \A i \in 1..Len(job[j].writes) :
            Len(job[j].writes[i].content) <= limit

\* C3: without an item cap, a job whose generator was exhausted has yielded
\* exactly one batch per page 1..totalPages, in increasing page order.
OneBatchPerPage ==
    \A j \in JobIds :
        (Exhausted(j) /\ limit = Infinity) =>
            BatchPages(job[j]) = [i \in 1..sitePages(endpoint(j)) |-> i]

\* an uncapped job completed on a category of several pages
OneBatchPerPageWitness ==
    \E j \in JobIds :
        /\ Exhausted(j)
        /\ limit = Infinity
        /\ job[j].outcome = "completed"
        /\ sitePages(endpoint(j)) >= 2
        /\ Len(job[j].batches) = sitePages(endpoint(j))

\* C4: a category job is queued or started only after the pre-flight check
\* succeeded; after a failed pre-flight check no category job was queued or
\* started and nothing was written; after a successful one every requested
\* endpoint was queued exactly once.
PreFlightGate ==
    /\ \A j \in JobIds :
          (enqueued[j] > 0 \/ cstate[j] # "new" \/ job[j].pc # "idle")
              => pre.reachable = "yes"
    /\ pre.reachable = "no" =>
          /\ \A j \in JobIds : enqueued[j] = 0 /\ job[j].writes = <<>>
          /\ files = <<>>
    /\ pre.reachable = "yes" => \A j \in JobIds : enqueued[j] = 1

\* the wait for the site root failed and the run ended without a job
PreFlightGateWitness ==
    /\ pre.reachable = "no"
    /\ cstate[PreFlight] = "success"
    /\ NumJobs >= 2
    /\ mainPc = "exited"

JobUniverse ==
    1..(IF MaxArgs > Len(ALL_ENDPOINTS) THEN MaxArgs ELSE Len(ALL_ENDPOINTS))

\* this step makes job j fail: the cluster settles it as failed, or its
\* callback enters the catch block or throws
AbortStep(j) ==
    \/ cstate[j] = "running" /\ cstate'[j] \in {"error", "timeout"}
    \/ ~job[j].caught /\ job'[j].caught
    \/ job[j].outcome # "threw" /\ job'[j].outcome = "threw"

\* the step leaves every job other than j, the queue and the files of the
\* other jobs as they were
OthersUnchanged(j) ==
    /\ \A k \in JobIds \ {j} :
          /\ job'[k] = job[k]
          /\ cstate'[k] = cstate[k]
          /\ \A w \in DOMAIN worker : worker[w] = k => worker'[w] = k
    /\ queue' = queue
    /\ \A f \in DOMAIN files :
          f \notin {CompleteName(j), IncompleteName(j)} =>
              f \in DOMAIN files' /\ files'[f] = files[f]

\* C6: the step in which a job aborts (extractor error, error outside the
\* try block, deadline) changes nothing of any other job; every queued job
\* is still dispatched, and once a job failed the run still reaches idle and
\* close.
JobIsolation ==
    /\ [][\A j \in JobUniverse :
            (j \in JobIds /\ AbortStep(j)) => OthersUnchanged(j)]_vars
    /\ \A j \in JobUniverse :
          (j \in JobIds /\ cstate[j] = "queued")
              ~> (j \in JobIds /\ cstate[j] # "queued")
    /\ (\E j \in JobIds : cstate[j] \in {"error", "timeout"})
          ~> (mainPc \in {"closed", "exited"})

\* one job was settled as failed, another one completed and wrote its
\* artifact, and the cluster was closed
JobIsolationWitness ==
    /\ mainPc = "closed"
    /\ \E j, k \in JobIds :
          /\ cstate[j] = "error"
          /\ cstate[k] = "success"
          /\ job[k].outcome = "completed"
          /\ Len(job[k].allParts) >= 1
          /\ CompleteName(k) \in DOMAIN files

RECURSIVE Positional(_, _)
\* the tokens of seq from position i on that are neither -n nor its count
Positional(seq, i) ==
    IF i > Len(seq) THEN <<>>
    ELSE IF seq[i] = "-n" THEN Positional(seq, i + 2)
    ELSE <<seq[i]>> \o Positional(seq, i + 1)

\* C7: after a successful pre-flight check the queued endpoints are the
\* positional tokens (never -n or its count), or the full category list
\* when there is no positional token.
EnqueuedArePositional ==
    pre.reachable = "yes" =>
        [j \in JobIds |-> endpoint(j)] =
            IF Positional(argv, 1) = <<>> THEN ALL_ENDPOINTS
            ELSE Positional(argv, 1)

\* C8: no job hands more than one artifact to writeFile; a job whose
\* generator was exhausted (all pages, or cap reached) has handed over
\* exactly one, named <category>.json, holding the concatenation of the
\* yielded batches in their order, and has no incomplete file.
ArtifactLaw ==
    \A j \in JobIds :
        /\ Len(job[j].writes) <= 1
        /\ Exhausted(j) =>
              /\ job[j].writes = <<[name |-> CompleteName(j),
                                   content |-> Flatten(job[j].batches)]>>
              /\ IncompleteName(j) \notin DOMAIN files
              /\ job[j].outcome = "completed" =>
                    /\ CompleteName(j) \in DOMAIN files
                    /\ files[CompleteName(j)] = Flatten(job[j].batches)

\* a job completed after two non-empty batches
ArtifactLawWitness ==
    \E j \in JobIds :
        /\ Exhausted(j)
        /\ job[j].outcome = "completed"
        /\ Len(job[j].batches) = 2
        /\ \A i \in 1..2 : job[j].batches[i].parts # <<>>
        /\ files[CompleteName(j)] = job[j].allParts

\* C9: a job settled by its deadline with N records accumulated at that
\* moment ends with <category>.incomplete.json holding those N records when
\* N > 0 and with nothing written when N = 0; its worker is released.
DeadlineLikeAbort ==
    \A j \in JobIds :
        cstate[j] = "timeout" =>
            /\ \A w \in DOMAIN worker : worker[w] # j
            /\ job[j].pc = "done" =>
                  IF Len(job[j].deadlineParts) > 0
                  THEN job[j].writes = <<[name |-> IncompleteName(j),
                                          content |-> job[j].deadlineParts]>>
                  ELSE job[j].writes = <<>>

\* the cluster's view of a job that ended
Settled(j) == cstate[j] \in {"success", "error", "timeout"}

\* C10: close() is called only after idle() returned, that is with an empty
\* queue, no busy worker, the pre-flight job settled and every category job
\* settled or never queued; and idle() eventually returns and close() is
\* eventually called, whatever failed.
CloseAfterIdle ==
    /\ [](mainPc \in {"close", "closed", "exited"} =>
            /\ queue = <<>>
            /\ Busy = {}
            /\ Settled(PreFlight)
            /\ \A j \in JobIds : Settled(j) \/ (cstate[j] = "new" /\ enqueued[j] = 0))
    /\ <>(mainPc \in {"closed", "exited"})

\* the cluster was closed after a run in which the deadline settled one job
\* and another one failed
CloseAfterIdleWitness ==
    /\ mainPc = "closed"
    /\ \E j, k \in JobIds : cstate[j] = "timeout" /\ cstate[k] = "error"

\* the jobs the cluster is running
Running == {j \in 0..NumJobs : cstate[j] = "running"}

\* C11: at most maxConcurrency jobs are running, each of them on exactly
\* one worker and no worker on anything else; a worker lets go of a job
\* only when the job is settled and takes the next one only when it is
\* free; and the job that starts is always the head of the queue, so the
\* category jobs start in the order in which they were queued.
BoundedParallelism ==
    /\ [](/\ Cardinality(Running) <= maxConcurrency
          /\ \A j \in Running : Cardinality({w \in DOMAIN worker : worker[w] = j}) = 1
          /\ \A w \in Busy : worker[w] \in Running
          /\ \A j, k \in JobIds :
                (cstate[j] = "queued" /\ cstate[k] \notin {"new", "queued"}) => k < j
          /\ \A i, k \in 1..Len(queue) : i < k => queue[i] < queue[k])
    /\ [][/\ \A w \in DOMAIN worker :
                worker'[w] # worker[w] =>
                    \/ worker[w] = NoJob
                    \/ /\ worker'[w] = NoJob
                       /\ cstate'[worker[w]] \in {"success", "error", "timeout"}
          /\ \A j \in JobIds :
                (cstate[j] = "queued" /\ cstate'[j] = "running")
                    => j = Head(queue)]_vars

\* all workers are busy, the job queued last among them, after an earlier
\* job ended and released its worker
BoundedParallelismWitness ==
    /\ Cardinality(Running) = maxConcurrency
    /\ NumJobs > maxConcurrency
    /\ cstate[NumJobs] = "running"
    /\ \E j \in JobIds : Settled(j)

\* the records of batch parts that come from the rows 1..i of the page
UpTo(parts, i) == Cardinality({x \in 1..Len(parts) : parts[x].idx <= i})

\* C12: a batch that reaches the item cap is the last one: the item loop
\* stopped at the first row after which the cap was reached (job.item is
\* the last row enumerated), no further page was entered, the generator
\* ended normally (stop was called, the catch block was not entered) and
\* the artifact handed to writeFile is <category>.json.
CapEndsSequence ==
    \A j \in JobIds :
        \A i \in 1..Len(job[j].batches) :
            LET b == job[j].batches[i]
            IN ReachedLimit(b.parts) =>
                  /\ i = Len(job[j].batches)
                  /\ UpTo(b.parts, job[j].item) = Len(b.parts)
                  /\ \A n \in 1..(job[j].item - 1) : UpTo(b.parts, n) < limit
                  /\ job[j].currentPage = b.page
                  /\ job[j].pc \in {"write", "done"}
                  /\ ~job[j].caught
                  /\ job[j].progress[Len(job[j].progress)] = "stop"
                  /\ job[j].fileName = endpoint(j)
                  /\ job[j].pc = "done" =>
                        job[j].writes = <<[name |-> CompleteName(j),
                                           content |-> job[j].allParts]>>

\* with -n 1 a job completed after the first of two rows of the first of
\* several pages
CapEndsSequenceWitness ==
    \E j \in JobIds :
        /\ limit = 1
        /\ job[j].outcome = "completed"
        /\ job[j].numPages >= 2
        /\ job[j].currentPage = 1
        /\ job[j].productEls = 2
        /\ job[j].item = 1
        /\ Len(job[j].allParts) = 1
        /\ CompleteName(j) \in DOMAIN files

\* C18: with a cap k >= 1 no yielded batch holds more than k records, and
\* no batch follows a batch of at least k records.
PerPageCap ==
    limit >= 1 =>
        \A j \in JobIds :
            \A i \in 1..Len(job[j].batches) :
                /\ Len(job[j].batches[i].parts) <= limit
                /\ Len(job[j].batches[i].parts) >= limit => i = Len(job[j].batches)

\* with -n 2 the second page of a job was cut at two records after a first
\* page that yielded fewer
PerPageCapWitness ==
    \E j \in JobIds :
        /\ limit = 2
        /\ job[j].pc = "done"
        /\ Len(job[j].batches) = 2
        /\ Len(job[j].batches[1].parts) = 1
        /\ Len(job[j].batches[2].parts) = 2

\* the positions of a callback, in the order in which it passes them
PcRank(pc) ==
    CASE pc = "idle" -> 0
      [] pc = "viewport" -> 1
      [] pc = "count1" -> 2
      [] pc = "count2" -> 3
      [] pc \in {"nav", "query", "item"} -> 4
      [] pc = "write" -> 5
      [] pc = "done" -> 6

\* C17: a job is handed to cluster.queue at most once and its callback is
\* started at most once: a job that was started is never queued or started
\* again, a settled job stays settled, a callback never goes back to an
\* earlier position or an earlier page, and its first batch is page 1.
NoRetry ==
    /\ [](\A j \in JobIds :
            /\ enqueued[j] <= 1
            /\ job[j].batches # <<>> => job[j].batches[1].page = 1)
    /\ [][\A j \in JobIds :
            /\ enqueued'[j] >= enqueued[j]
            /\ cstate[j] \notin {"new", "queued"} => cstate'[j] # "queued"
            /\ cstate[j] # "queued" => ~(cstate'[j] = "running" /\ cstate[j] # "running")
            /\ Settled(j) => cstate'[j] = cstate[j]
            /\ PcRank(job'[j].pc) >= PcRank(job[j].pc)
            /\ job[j].currentPage >= 1 => job'[j].currentPage >= job[j].currentPage]_vars

\* the run ended with one job aborted after its first page, one settled by
\* its deadline, each of them queued once
NoRetryWitness ==
    /\ mainPc = "exited"
    /\ \E j, k \in JobIds :
          /\ cstate[j] = "success" /\ job[j].outcome = "incomplete"
          /\ cstate[k] = "timeout"
          /\ enqueued[j] = 1 /\ enqueued[k] = 1

\* the generator of job j was exhausted: the for-await loop ended
LoopEnded(j) ==
    /\ ~job[j].caught
    /\ \/ job[j].pc = "write"
       \/ job[j].pc = "done" /\ job[j].writes # <<>>

\* C19: the bar is started once, when the first page count of the job is
\* known and with that count, before any increment; it is incremented once
\* per batch appended to allParts; and it is stopped once, exactly when the
\* for-await loop ended, never in a job that went through the catch block.
ProgressProtocol ==
    \A j \in JobIds :
        LET r == job[j]
            n == Len(r.batches)
            started == PcRank(r.pc) >= 3 \/ (r.progress # <<>>)
            body == [i \in 1..(n + 1) |-> IF i = 1 THEN "start" ELSE "increment"]
        IN /\ PcRank(r.pc) <= 2 /\ r.pc # "done" => r.progress = <<>>
           /\ r.progress # <<>> =>
                 /\ r.barTotal = sitePages(endpoint(j))
                 /\ r.progress = IF LoopEnded(j) THEN Append(body, "stop") ELSE body
           /\ r.progress = <<>> => n = 0 /\ ~LoopEnded(j)
           /\ r.pc \in {"count2", "nav", "query", "item", "write"} => r.progress # <<>>
           /\ r.caught => \A i \in 1..Len(r.progress) : r.progress[i] # "stop"

\* a job completed after two batches: start, two increments, stop
ProgressProtocolWitness ==
    \E j \in JobIds :
        /\ job[j].outcome = "completed"
        /\ job[j].barTotal = 2
        /\ job[j].progress = <<"start", "increment", "increment", "stop">>

Range(seq) == {seq[i] : i \in 1..Len(seq)}

\* the label of a cell has an entry in the mapping table of category e
Mapped(e, c) == c.label # Throws /\ trim(c.label) \in DOMAIN map[e]

\* the label of a cell was read and has no entry in the table of category e
Unmapped(e, c) == c.label # Throws /\ trim(c.label) \notin DOMAIN map[e]

FieldOf(e, c) == map[e][trim(c.label)][1]
KindOf(e, c) == map[e][trim(c.label)][2]

\* the raw value of a cell is missing or blank
Blank(v) == v = Missing \/ trim(v) = ""

\* every read of the row succeeds and no parser throws on its values
Readable(e, row) ==
    /\ row.name # Throws
    /\ row.price # Throws
    /\ \A i \in 1..Len(row.specs) :
          LET c == row.specs[i]
          IN /\ c.label # Throws
             /\ Mapped(e, c) =>
                   /\ c.value # Throws
                   /\ ~(/\ KindOf(e, c) = "custom"
                        /\ FieldOf(e, c) \in customSerializers[e]
                        /\ ~Blank(c.value)
                        /\ CustomThrows(c.value))

\* processing the row fails somewhere
Failing(e, row) ==
    \/ ~Readable(e, row)
    \/ \E i \in 1..Len(row.specs) :
          Unmapped(e, row.specs[i]) /\ trim(row.specs[i].label) \in ObjectPrototype

\* C13: a failing row is dropped and nothing else happens: every batch
\* holds, in the order of the page, exactly the rows that were processed
\* and did not fail; without a cap every row of the page was processed; a
\* step that drops a row neither enters the catch block nor ends the job,
\* it goes on with the next row or yields the batch of the page; and a job
\* without a cap that completed has a batch for every page, whatever it
\* dropped.
PerItemIsolation ==
    /\ [](\A j \in JobIds :
            /\ \A k \in 1..Len(job[j].batches) :
                  LET b == job[j].batches[k]
                      lost == {d.idx : d \in {x \in Range(job[j].dropped) : x.page = b.page}}
                  IN /\ \A i, m \in 1..Len(b.parts) :
                           i < m => b.parts[i].idx < b.parts[m].idx
                     /\ {b.parts[i].idx : i \in 1..Len(b.parts)} = (1..b.seen) \ lost
                     /\ limit = Infinity => b.seen = site[endpoint(j)][b.page]
            /\ job[j].pc = "item" =>
                  \A row \in dom :
                      Failing(endpoint(j), row) <=> ~Serialize(endpoint(j), row).ok
            /\ (job[j].outcome = "completed" /\ limit = Infinity) =>
                  BatchPages(job[j]) = [i \in 1..sitePages(endpoint(j)) |-> i]
            /\ job[j].outcome = "incomplete" => job[j].caught)
    /\ [][\A j \in JobIds :
            job'[j].dropped # job[j].dropped =>
                /\ job'[j].caught = job[j].caught
                /\ job'[j].writes = job[j].writes
                /\ job'[j].pc \in {"item", "nav", "write"}
                /\ IF job'[j].pc = "item"
                   THEN /\ job'[j].pageProducts = job[j].pageProducts
                        /\ job'[j].batches = job[j].batches
                        /\ job'[j].item = job[j].item + 1
                   ELSE job'[j].batches =
                            Append(job[j].batches,
                                   [page |-> job[j].currentPage,
                                    parts |-> job[j].pageProducts,
                                    seen |-> job[j].item])]_vars

\* a job completed with a batch for each of two pages although it dropped
\* the first row of page 1, kept the second, and dropped a row of page 2
PerItemIsolationWitness ==
    \E j \in JobIds :
        /\ job[j].outcome = "completed"
        /\ limit = Infinity
        /\ Len(job[j].batches) = 2
        /\ [page |-> 1, idx |-> 1] \in Range(job[j].dropped)
        /\ \E d \in Range(job[j].dropped) : d.page = 2
        /\ Len(job[j].batches[1].parts) = 1
        /\ job[j].batches[1].parts[1].idx = 2

\* the records job j holds or handed on
RecordsOf(j) ==
    Range(job[j].pageProducts) \cup Range(job[j].allParts)
    \cup UNION {Range(b.parts) : b \in Range(job[j].batches)}
    \cup UNION {Range(w.content) : w \in Range(job[j].writes)}

WellFormed(rec) ==
    /\ {"name", "price"} \subseteq DOMAIN rec.fields
    /\ rec.fields["name"].kind = "string"
    /\ rec.fields["price"].kind \in {"number", "null"}
    /\ rec.row.price \in {"", Missing} => rec.fields["price"] = Null

\* C14: every record in a page batch, in the accumulated list, in a yielded
\* batch, in what is handed to writeFile and in a written file has a name
\* and a price field, and its price is null when the price text of its row
\* was missing or empty.
NamePriceAlways ==
    /\ \A j \in JobIds : \A rec \in RecordsOf(j) : WellFormed(rec)
    /\ \A f \in DOMAIN files : \A rec \in Range(files[f]) : WellFormed(rec)

\* cpu.json was written with a record of a row whose price text is empty
NamePriceAlwaysWitness ==
    /\ "cpu.json" \in DOMAIN files
    /\ \E rec \in Range(files["cpu.json"]) :
          /\ rec.row.price = ""
          /\ rec.fields["price"] = Null
          /\ rec.fields["name"] = Str("Ryzen 5")

\* the first page batch of job j was yielded by a callback whose page is open
FirstBatchRead(j) ==
    /\ hasPagination(endpoint(j))
    /\ ~job[j].pageClosed
    /\ job[j].batches # <<>>

\* C15: a cell whose label has no entry in the mapping table of the category
\* leaves the record as it was, the cells after it are processed, and the
\* item is appended to the batch: the record of a row whose reads all
\* succeed is in the batch and has name, price and the fields of its mapped
\* cells, no other.
UnknownLabelSkipped ==
    \A j \in JobIds : \A row \in dom :
        (FirstBatchRead(j) /\ Readable(endpoint(j), row)) =>
            LET e == endpoint(j)
                head == SerializeHead(row).fields
                parts == job[j].batches[1].parts
            IN /\ \A i \in 1..Len(row.specs) :
                     Unmapped(e, row.specs[i]) =>
                         SpecsUpTo(e, head, row.specs, i).fields
                             = SpecsUpTo(e, head, row.specs, i - 1).fields
               /\ Len(parts) = 1
               /\ parts[1].row = row
               /\ DOMAIN parts[1].fields =
                     {"name", "price"}
                     \cup {FieldOf(e, row.specs[i]) :
                             i \in {k \in 1..Len(row.specs) : Mapped(e, row.specs[k])}}

\* C16: a mapped cell whose kind is custom and whose field has no parser in
\* the registry, and a mapped cell whose value is missing or blank whatever
\* its kind, set the field to null without an error: the record of a row
\* that fails nowhere is in the batch, and the field is null once the cell
\* was processed.
NullForGaps ==
    \A j \in JobIds : \A row \in dom :
        (FirstBatchRead(j) /\ ~Failing(endpoint(j), row)) =>
            LET e == endpoint(j)
                head == SerializeHead(row).fields
                parts == job[j].batches[1].parts
            IN /\ Len(parts) = 1
               /\ parts[1].row = row
               /\ parts[1].fields = SpecsUpTo(e, head, row.specs, Len(row.specs)).fields
               /\ \A i \in 1..Len(row.specs) :
                     LET c == row.specs[i]
                     IN (/\ Mapped(e, c)
                         /\ \/ Blank(c.value)
                            \/ /\ KindOf(e, c) = "custom"
                               /\ FieldOf(e, c) \notin customSerializers[e]) =>
                            LET after == SpecsUpTo(e, head, row.specs, i)
                            IN /\ after.ok
                               /\ after.fields[FieldOf(e, c)] = Null
                               /\ (\A k \in (i + 1)..Len(row.specs) :
                                      ~Mapped(e, row.specs[k])
                                      \/ FieldOf(e, row.specs[k]) # FieldOf(e, c))
                                  => parts[1].fields[FieldOf(e, c)] = Null

\* cpu.json was written with the record of a row that has a value for a
\* custom field without a parser and a blank value for a number field
NullForGapsWitness ==
    /\ "cpu.json" \in DOMAIN files
    /\ \E rec \in Range(files["cpu.json"]) :
          /\ rec.row.specs = <<Cell("Graphics", "8"), Cell("Core Count", " ")>>
          /\ rec.fields["graphics"] = Null
          /\ rec.fields["core_count"] = Null

====
